---- MODULE Spec2Model ----
(***************************************************************************)
(* A model of the AI Hub backend: the fan-out of one prompt to several     *)
(* provider adapters (routers/chat.py, services/providers.py) and the      *)
(* in-memory session store (services/storage.py).                          *)
(*                                                                         *)
(* Python values are modelled as follows.                                  *)
(*   Optional[T]   a sequence of length 0 (None) or 1 (the value)          *)
(*   str           a TLA+ string, built with \o as the f-strings build it  *)
(*   datetime.now(timezone.utc).isoformat()                                *)
(*                 a reading of the wall clock, a natural number; the      *)
(*                 ISO-8601 text of a UTC instant orders as the instant    *)
(*   uuid.uuid4()  a value of Uuids that was never generated before        *)
(* The event loop runs a coroutine without interruption up to its next     *)
(* await that suspends, so every action below is the code between two      *)
(* suspension points.                                                      *)
(***************************************************************************)
EXTENDS Integers, Sequences, FiniteSets, TLC

VARIABLES
    sessions,   \* ChatStorage.sessions: session id -> ChatSession
    issued,     \* the uuids generated so far
    clock,      \* the latest reading of the wall clock
    handlers,   \* request handler -> the request it is suspended in, or Idle
    last        \* what the latest step did: the route it ran, the storage
                \* calls it made and the response it sent, if any

vars == <<sessions, issued, clock, handlers, last>>

----------------------------------------------------------------------------
(* Bounds of the model *)

MaxModels == 3       \* longest provider list of a POST /chat request
MaxMessages == 2     \* a turn starts only while the store holds fewer messages
MaxClock == 1        \* the wall clock stops advancing here

Handlers == {"h1", "h2"}
ChatHandlers == {"h1"}
Uuids == {"s1", "s2"}
Titles == {"X", "Y"}
TurnTitles == {"X"}
Contents == {"a", "b"}
ChatPrompts == {"2+2?"}
ChatModelKeys == {"openai", "unknown"}
TurnUuids == {"s1"}
TurnModels == {<<>>, <<"openai">>, <<"openai", "unknown">>, <<"openai", "openai">>}
LiveContents == {"a"}
LiveModels == {<<"openai">>, <<"unknown", "openai">>}

RECURSIVE SeqsUpTo(_, _)
SeqsUpTo(S, n) ==
    IF n = 0 THEN {<<>>}
    ELSE LET shorter == SeqsUpTo(S, n - 1)
         IN  shorter \cup {Append(q, x) : q \in {r \in shorter : Len(r) = n - 1}, x \in S}

----------------------------------------------------------------------------
(* Python helpers *)

None == <<>>
Some(x) == <<x>>

\* seq[-n:]
LastN(seq, n) ==
    IF Len(seq) <= n THEN seq ELSE SubSeq(seq, Len(seq) - n + 1, Len(seq))

\* sep.join(parts)
RECURSIVE Join(_, _)
Join(sep, parts) ==
    IF parts = <<>> THEN ""
    ELSE IF Len(parts) = 1 THEN parts[1]
    ELSE parts[1] \o sep \o Join(sep, Tail(parts))

\* the readings datetime.now() can give after the reading t
Now(t) == {u \in t..(t + 1) : u <= MaxClock}

----------------------------------------------------------------------------
(* schemas.py *)

ModelResponse(model, output, latency_ms, finish_reason, usage, error) ==
    [model |-> model, output |-> output, latency_ms |-> latency_ms,
     finish_reason |-> finish_reason, usage |-> usage, error |-> error]

\* ChatMessage.timestamp is written and never read: it is left out, and only
\* the reading of the clock that fills it is kept
ChatMessage(role, content, model_responses) ==
    [role |-> role, content |-> content, model_responses |-> model_responses]

ChatSession(id, title, messages, created_at, updated_at) ==
    [id |-> id, title |-> title, messages |-> messages,
     created_at |-> created_at, updated_at |-> updated_at]

----------------------------------------------------------------------------
(* services/providers.py *)

(* One HTTP exchange with a provider's endpoint, as httpx reports it:      *)
(* client.post raises (a connection error, the 60 s timeout; str(exc) is   *)
(* empty for httpx's timeouts), or it returns a response with a status, a  *)
(* raw text and a body. The bodies are: "full", the documented shape,      *)
(* carrying the completion `content`; "no_fields", a JSON object without   *)
(* the fields read; "empty_list", the choices/candidates/content list is   *)
(* empty; "not_json".                                                      *)
Raises(text) == [kind |-> "raise", text |-> text]
Response(status_code, text, body, content, elapsed) ==
    [kind |-> "response", status_code |-> status_code, text |-> text,
     body |-> body, content |-> content, elapsed |-> elapsed]

\* what a coroutine ends with: an exception, or a returned value
Raised(text) == [raised |-> TRUE, exc |-> text]
Returned(value) == [raised |-> FALSE, value |-> value]

ChatCompletionsProviders == {"openai", "mistral", "perplexity"}

\* OpenAIProvider.generate (MistralProvider and PerplexityProvider read the
\* response the same way), from the response on
OpenAIProvider_generate(name, x) ==
    IF x.status_code >= 400
    THEN Returned(ModelResponse(name, "", x.elapsed, None, None, Some(x.text)))
    ELSE CASE x.body = "not_json" -> Raised("Expecting value: line 1 column 1 (char 0)")
           [] x.body = "empty_list" -> Raised("list index out of range")
           [] x.body = "no_fields" ->
                Returned(ModelResponse(name, "", x.elapsed, None, None, None))
           [] OTHER ->
                Returned(ModelResponse(name, x.content, x.elapsed, Some("stop"),
                                       Some("usage"), None))

AnthropicProvider_generate(name, x) ==
    IF x.status_code >= 400
    THEN Returned(ModelResponse(name, "", x.elapsed, None, None, Some(x.text)))
    ELSE CASE x.body = "not_json" -> Raised("Expecting value: line 1 column 1 (char 0)")
           [] x.body = "empty_list" ->
                Returned(ModelResponse(name, "", x.elapsed, Some("end_turn"),
                                       Some("usage"), None))
           [] x.body = "no_fields" ->
                Returned(ModelResponse(name, "", x.elapsed, None, None, None))
           [] OTHER ->
                Returned(ModelResponse(name, x.content, x.elapsed, Some("end_turn"),
                                       Some("usage"), None))

GoogleProvider_generate(name, x) ==
    IF x.status_code >= 400
    THEN Returned(ModelResponse(name, "", x.elapsed, None, None, Some(x.text)))
    ELSE CASE x.body = "not_json" -> Raised("Expecting value: line 1 column 1 (char 0)")
           [] x.body = "empty_list" ->
                Returned(ModelResponse(name, "", x.elapsed, None, Some("usage"), None))
           [] x.body = "no_fields" ->
                Returned(ModelResponse(name, "", x.elapsed, None, None, None))
           [] OTHER ->
                Returned(ModelResponse(name, x.content, x.elapsed, None, Some("usage"), None))

\* provider.generate(...), resumed with the exchange x of its client.post
generate(name, x) ==
    IF x.kind = "raise" THEN Raised(x.text)
    ELSE CASE name \in ChatCompletionsProviders -> OpenAIProvider_generate(name, x)
           [] name = "anthropic" -> AnthropicProvider_generate(name, x)
           [] name = "google" -> GoogleProvider_generate(name, x)

\* the exchanges the model draws from
Exchanges ==
    {Raises(""), Raises("All connection attempts failed"),
     Response(500, "upstream error", "not_json", "", 7),
     Response(200, "{full}", "full", "4", 10),
     Response(200, "{}", "no_fields", "", 10)}

TurnExchanges ==
    {Raises(""), Response(200, "{full}", "full", "4", 10)}

\* the exchanges of the adapters on their own: each kind of failure (no
\* connection, the timeout, a status >= 400 with and without a text, a
\* redirect, which httpx does not follow, answered without a body and with
\* a JSON one, a 200 that is not JSON) and each shape of a 200 response
AdapterExchanges ==
    Exchanges \cup
    {Response(503, "", "not_json", "", 3),
     Response(301, "", "not_json", "", 5),
     Response(301, "{}", "no_fields", "", 5),
     Response(200, "<html>", "not_json", "", 10),
     Response(200, "{empty list}", "empty_list", "", 10)}

----------------------------------------------------------------------------
(* services/storage.py: ChatStorage                                        *)
(*                                                                         *)
(* self.sessions is a dict, which keeps its keys in insertion order: it is *)
(* the sequence of its values, each carrying its key in `id`. A method is  *)
(* an operator from the dict (and the method's arguments, the uuid and the *)
(* clock readings it draws) to the dict it leaves and the value it         *)
(* returns. A returned ChatSession is the stored object itself.            *)

Keys(store) == {store[i].id : i \in 1..Len(store)}

\* the position of the key session_id, which is in the dict
IndexOf(store, session_id) ==
    CHOOSE i \in 1..Len(store) : store[i].id = session_id

\* self.sessions.get(session_id)
DictGet(store, session_id) ==
    IF session_id \in Keys(store)
    THEN Some(store[IndexOf(store, session_id)])
    ELSE None

RECURSIVE TotalMessages(_)
TotalMessages(store) ==
    IF store = <<>> THEN 0
    ELSE Len(Head(store).messages) + TotalMessages(Tail(store))

Outcome(store, ret) == [sessions |-> store, ret |-> ret]

\* a bug to compare with: the session returned and not stored
ChatStorage_create_session_unstored(store, title, session_id, now) ==
    Outcome(store, ChatSession(session_id, title, <<>>, now, now))

ChatStorage_create_session(store, title, session_id, now) ==
    LET session == ChatSession(session_id, title, <<>>, now, now)
    IN  Outcome(IF session_id \in Keys(store)
                THEN [store EXCEPT ![IndexOf(store, session_id)] = session]
                ELSE Append(store, session),
                session)

ChatStorage_get_session(store, session_id) ==
    Outcome(store, DictGet(store, session_id))

ChatStorage_list_sessions(store) ==
    Outcome(store, store)

\* a bug to compare with: the message appended and updated_at left as it was
ChatStorage_add_message_unrefreshed(store, session_id, message, now) ==
    LET session == DictGet(store, session_id)
    IN  IF session = None
        THEN Outcome(store, None)
        ELSE LET i == IndexOf(store, session_id)
                 updated == [store[i] EXCEPT !.messages = Append(@, message)]
             IN  Outcome([store EXCEPT ![i] = updated], Some(updated))

\* a bug to compare with: a session made for an id the dict does not hold
ChatStorage_add_message_upsert(store, session_id, message, now) ==
    LET session == DictGet(store, session_id)
    IN  IF session = None
        THEN LET made == ChatSession(session_id, "", <<message>>, now, now)
             IN  Outcome(Append(store, made), Some(made))
        ELSE LET i == IndexOf(store, session_id)
                 updated == [store[i] EXCEPT
                                !.messages = Append(@, message),
                                !.updated_at = now]
             IN  Outcome([store EXCEPT ![i] = updated], Some(updated))

\* a bug to compare with: a user message is not stored
ChatStorage_add_message_user_dropped(store, session_id, message, now) ==
    LET session == DictGet(store, session_id)
    IN  IF session = None
        THEN Outcome(store, None)
        ELSE LET i == IndexOf(store, session_id)
                 updated == [store[i] EXCEPT
                                !.messages = IF message.role = "user" THEN @
                                             ELSE Append(@, message),
                                !.updated_at = now]
             IN  Outcome([store EXCEPT ![i] = updated], Some(updated))

\* a bug to compare with: the message put first
ChatStorage_add_message_prepend(store, session_id, message, now) ==
    LET session == DictGet(store, session_id)
    IN  IF session = None
        THEN Outcome(store, None)
        ELSE LET i == IndexOf(store, session_id)
                 updated == [store[i] EXCEPT
                                !.messages = <<message>> \o @,
                                !.updated_at = now]
             IN  Outcome([store EXCEPT ![i] = updated], Some(updated))

ChatStorage_add_message(store, session_id, message, now) ==
    LET session == DictGet(store, session_id)
    IN  IF session = None
        THEN Outcome(store, None)
        ELSE LET i == IndexOf(store, session_id)
                 updated == [store[i] EXCEPT
                                !.messages = Append(@, message),
                                !.updated_at = now]
             IN  Outcome([store EXCEPT ![i] = updated], Some(updated))

\* a bug to compare with: the whole dict cleared
ChatStorage_delete_session_clear(store, session_id) ==
    IF session_id \in Keys(store)
    THEN Outcome(<<>>, TRUE)
    ELSE Outcome(store, FALSE)

ChatStorage_delete_session(store, session_id) ==
    IF session_id \in Keys(store)
    THEN Outcome(SelectSeq(store, LAMBDA s : s.id # session_id), TRUE)
    ELSE Outcome(store, FALSE)

\* a bug to compare with: the session replaced by a new one with the title
ChatStorage_update_session_title_replace(store, session_id, title, now) ==
    LET session == DictGet(store, session_id)
    IN  IF session = None
        THEN Outcome(store, None)
        ELSE LET i == IndexOf(store, session_id)
                 updated == ChatSession(session_id, title, <<>>, now, now)
             IN  Outcome([store EXCEPT ![i] = updated], Some(updated))

ChatStorage_update_session_title(store, session_id, title, now) ==
    LET session == DictGet(store, session_id)
    IN  IF session = None
        THEN Outcome(store, None)
        ELSE LET i == IndexOf(store, session_id)
                 updated == [store[i] EXCEPT !.title = title, !.updated_at = now]
             IN  Outcome([store EXCEPT ![i] = updated], Some(updated))

(* One storage call, as the steps record it: the method, the session id it *)
(* is about ("" for list_sessions, which takes none), the title or the     *)
(* message passed, if any, and what it returned: in `ret` the ChatSession  *)
(* (None for a None, the list for list_sessions), in `success` the bool of *)
(* delete_session.                                                         *)
Call(op, session_id, title, message, ret, success) ==
    [op |-> op, session_id |-> session_id, title |-> title, message |-> message,
     ret |-> ret, success |-> success]

----------------------------------------------------------------------------
(* routers/chat.py *)

ContextWindow == 5

\* the adapters' names by registry key
PROVIDER_MAP ==
    [k \in {"openai", "anthropic", "google", "mistral", "perplexity"} |-> k]

(* A call_single_model coroutine, wrapped in a task by asyncio.gather:     *)
(* "created" until the loop first runs it, "awaiting" while suspended in   *)
(* provider.generate, "done" with its ModelResponse. `sent` is the prompt  *)
(* it posted and `exchange` what came of the post. gather schedules its tasks one after the other, so the loop  *)
(* runs each of them up to its first suspension, in order, before any      *)
(* exchange can end; these first runs touch no shared state, and the       *)
(* actions that start a gather include them.                               *)
Task(provider_key, prompt) ==
    [provider_key |-> provider_key, prompt |-> prompt, state |-> "created",
     sent |-> None, exchange |-> None, result |-> None]

\* a bug to compare with: the message of an unknown provider as its output
call_single_model_unknown_as_output(task) ==
    IF task.provider_key \notin DOMAIN PROVIDER_MAP
    THEN [task EXCEPT
            !.state = "done",
            !.result = Some(ModelResponse(task.provider_key, "Unknown provider", 0,
                                          None, None, None))]
    ELSE [task EXCEPT !.state = "awaiting", !.sent = Some(task.prompt)]

\* call_single_model up to its await: the registry lookup
call_single_model(task) ==
    IF task.provider_key \notin DOMAIN PROVIDER_MAP
    THEN [task EXCEPT
            !.state = "done",
            !.result = Some(ModelResponse(task.provider_key, "", 0, None, None,
                                          Some("Unknown provider")))]
    ELSE [task EXCEPT !.state = "awaiting", !.sent = Some(task.prompt)]

\* call_single_model from its await on: generate ends after the exchange x
call_single_model_resumed(task, x) ==
    LET r == generate(PROVIDER_MAP[task.provider_key], x)
    IN  [task EXCEPT
            !.state = "done",
            !.exchange = Some(x),
            !.result = Some(IF r.raised
                            THEN ModelResponse(task.provider_key, "", 0, None, None,
                                               Some(r.exc))
                            ELSE r.value)]

\* a bug to compare with: the calls awaited one by one, so that only the
\* first is started
gather_start_one_by_one(models, prompt) ==
    LET tasks == [i \in 1..Len(models) |->
                    IF i = 1 THEN call_single_model(Task(models[i], prompt))
                    ELSE Task(models[i], prompt)]
    IN  [tasks |-> tasks,
         done_order |-> SelectSeq([i \in 1..Len(models) |-> i],
                                  LAMBDA i : tasks[i].state = "done")]

\* asyncio.gather(*[call_single_model(key, ...) for key in models]), with the
\* first run of each task; done_order lists the tasks done so far
gather_start(models, prompt) ==
    LET tasks == [i \in 1..Len(models) |-> call_single_model(Task(models[i], prompt))]
    IN  [tasks |-> tasks,
         done_order |-> SelectSeq([i \in 1..Len(models) |-> i],
                                  LAMBDA i : tasks[i].state = "done")]

AllDone(tasks) == \A i \in 1..Len(tasks) : tasks[i].state = "done"

\* task.result(), which raises InvalidStateError on a task that is not done
task_result(task) ==
    IF task.state = "done" THEN task.result[1] ELSE "InvalidStateError"

\* a bug to compare with: the results in the order the tasks were done
gather_in_completion_order(tasks, done_order) ==
    [i \in 1..Len(done_order) |-> task_result(tasks[done_order[i]])]

\* what `await asyncio.gather(*tasks)` evaluates to once every task is done:
\* the tasks' results by position
gather(tasks, done_order) ==
    [i \in 1..Len(tasks) |-> task_result(tasks[i])]

\* for msg in messages: if msg.role == "user": append(f"User: {msg.content}")
RECURSIVE context_messages(_)
context_messages(messages) ==
    IF messages = <<>> THEN <<>>
    ELSE (IF Head(messages).role = "user"
          THEN <<"User: " \o Head(messages).content>>
          ELSE <<>>) \o context_messages(Tail(messages))

\* add_message, lines 105-116, reading the messages of `session`
enhanced_prompt(messages, content) ==
    LET context == context_messages(LastN(messages, ContextWindow))
    IN  IF context # <<>>
        THEN "Previous conversation:\n" \o Join("\n\n", context)
             \o "\n\nCurrent question: " \o content
        ELSE content

(* `session` in add_message is the object get_session returned, which is   *)
(* the stored one: read after chat_storage.add_message has appended to it, *)
(* it shows the appended message.                                          *)
Deref(store, session) == store[IndexOf(store, session.id)]

Idle == [route |-> "idle"]

\* a POST /chat request suspended in `await asyncio.gather(*tasks)`
Dispatch(models, prompt, tasks, done_order) ==
    [route |-> "chat", models |-> models, prompt |-> prompt, tasks |-> tasks,
     done_order |-> done_order]

\* a turn suspended in `await asyncio.gather(*tasks)`
Request(route, session_id, content, models, prompt, tasks, done_order) ==
    [route |-> route, session_id |-> session_id, content |-> content,
     models |-> models, prompt |-> prompt, tasks |-> tasks,
     done_order |-> done_order]

(* The body of a response, by the field it carries: `responses` of a       *)
(* ChatResponse, `session` of a GetSessionResponse or the ChatSession that *)
(* POST /sessions returns, `sessions` of a ListSessionsResponse, `message` *)
(* of DELETE and `detail` of an HTTPException.                             *)
Body(detail, message, responses, session, all) ==
    [detail |-> detail, message |-> message, responses |-> responses,
     session |-> session, sessions |-> all]

NoBody == Body(None, None, None, None, None)
HTTPException(detail) == Body(Some(detail), None, None, None, None)
ChatResponse(responses) == Body(None, None, Some(responses), None, None)
SessionBody(session) == Body(None, None, None, Some(session), None)
ListSessionsResponse(all) == Body(None, None, None, None, Some(all))
MessageBody(message) == Body(None, Some(message), None, None, None)

\* `status` is None and `body` NoBody while the step has sent no response
Step(route, handler, status, body, calls, request) ==
    [route |-> route, handler |-> handler, status |-> status, body |-> body,
     calls |-> calls, request |-> request]

----------------------------------------------------------------------------
(* State machine *)

Init ==
    /\ sessions = <<>>
    /\ issued = {}
    /\ clock = 0
    /\ handlers = [h \in Handlers |-> Idle]
    /\ last = Step("init", "", None, NoBody, <<>>, Idle)

\* POST /chat, lines 58-59, to the await
chat(h, prompt, models) ==
    /\ handlers[h] = Idle
    /\ LET g == gather_start(models, prompt)
           request == Dispatch(models, prompt, g.tasks, g.done_order)
       IN  /\ handlers' = [handlers EXCEPT ![h] = request]
           /\ last' = Step("chat", h, None, NoBody, <<>>, request)
    /\ UNCHANGED <<sessions, issued, clock>>

\* the exchange x of task i ends, and the loop resumes the task
task_resume(h, i, x) ==
    /\ handlers[h] # Idle
    /\ i \in 1..Len(handlers[h].tasks)
    /\ handlers[h].tasks[i].state = "awaiting"
    /\ LET task == call_single_model_resumed(handlers[h].tasks[i], x)
           request == [handlers[h] EXCEPT
                          !.tasks[i] = task, !.done_order = Append(@, i)]
       IN  /\ handlers' = [handlers EXCEPT ![h] = request]
           /\ last' = Step("call_single_model", h, None, NoBody, <<>>, request)
    /\ UNCHANGED <<sessions, issued, clock>>

\* a bug to compare with: resuming on the first task done
gather_ready_first_completed(request) ==
    \E i \in 1..Len(request.tasks) : request.tasks[i].state = "done"

\* a bug to compare with: resuming only when no call has failed
gather_ready_none_failed(request) ==
    /\ AllDone(request.tasks)
    /\ \A i \in 1..Len(request.tasks) : request.tasks[i].result[1].error = None

\* the gather is resumed when its tasks are done
gather_ready(request) == AllDone(request.tasks)

\* POST /chat, lines 59-60, from the await on
chat_return(h) ==
    /\ handlers[h] # Idle
    /\ handlers[h].route = "chat"
    /\ gather_ready(handlers[h])
    /\ handlers' = [handlers EXCEPT ![h] = Idle]
    /\ LET results == gather(handlers[h].tasks, handlers[h].done_order)
       IN  last' = Step("chat", h, Some(200), ChatResponse(results), <<>>, handlers[h])
    /\ UNCHANGED <<sessions, issued, clock>>

NextChat ==
    \E h \in ChatHandlers :
        \/ \E prompt \in ChatPrompts, models \in SeqsUpTo(ChatModelKeys, MaxModels) :
              Len(models) >= 1 /\ chat(h, prompt, models)
        \/ \E i \in 1..MaxModels, x \in Exchanges : task_resume(h, i, x)
        \/ chat_return(h)

SpecChat == Init /\ [][NextChat]_vars

\* POST /chat with one provider id, over every adapter of the registry
NextProviders ==
    \E h \in ChatHandlers :
        \/ \E prompt \in ChatPrompts, provider_key \in DOMAIN PROVIDER_MAP :
              chat(h, prompt, <<provider_key>>)
        \/ \E x \in AdapterExchanges : task_resume(h, 1, x)
        \/ chat_return(h)

SpecProviders == Init /\ [][NextProviders]_vars

\* POST /sessions: uuid4 gives a uuid never generated before
create_session(title, session_id) ==
    \E now \in Now(clock) :
        LET o == ChatStorage_create_session(sessions, title, session_id, now)
        IN  /\ sessions' = o.sessions
            /\ issued' = issued \cup {session_id}
            /\ clock' = now
            /\ last' = Step("create_session", "", Some(200), SessionBody(o.ret),
                            <<Call("create_session", session_id, Some(title), None,
                                   Some(o.ret), None)>>,
                            Idle)
            /\ UNCHANGED handlers

\* GET /sessions
list_sessions ==
    LET o == ChatStorage_list_sessions(sessions)
    IN  /\ last' = Step("list_sessions", "", Some(200), ListSessionsResponse(o.ret),
                        <<Call("list_sessions", "", None, None, o.ret, None)>>, Idle)
        /\ UNCHANGED <<sessions, issued, clock, handlers>>

\* GET /sessions/{session_id}
get_session(session_id) ==
    LET o == ChatStorage_get_session(sessions, session_id)
        calls == <<Call("get_session", session_id, None, None, o.ret, None)>>
    IN  /\ last' = IF o.ret = None
                   THEN Step("get_session", "", Some(404),
                             HTTPException("Session not found"), calls, Idle)
                   ELSE Step("get_session", "", Some(200), SessionBody(o.ret[1]),
                             calls, Idle)
        /\ UNCHANGED <<sessions, issued, clock, handlers>>

\* DELETE /sessions/{session_id}
delete_session(session_id) ==
    LET o == ChatStorage_delete_session(sessions, session_id)
        calls == <<Call("delete_session", session_id, None, None, None, Some(o.ret))>>
    IN  /\ sessions' = o.sessions
        /\ last' = IF o.ret
                   THEN Step("delete_session", "", Some(200),
                             MessageBody("Session deleted"), calls, Idle)
                   ELSE Step("delete_session", "", Some(404),
                             HTTPException("Session not found"), calls, Idle)
        /\ UNCHANGED <<issued, clock, handlers>>

\* chat_storage.update_session_title, which no route calls
update_session_title(session_id, title) ==
    \E now \in Now(clock) :
        LET o == ChatStorage_update_session_title(sessions, session_id, title, now)
        IN  /\ sessions' = o.sessions
            /\ clock' = IF o.ret = None THEN clock ELSE now
            /\ last' = Step("update_session_title", "", None, NoBody,
                            <<Call("update_session_title", session_id, Some(title),
                                   None, o.ret, None)>>,
                            Idle)
            /\ UNCHANGED <<issued, handlers>>

\* a bug to compare with: the assistant message carrying the content of the
\* request in place of the prompt sent
add_message_resumed_raw_content(store, request, now) ==
    LET results == gather(request.tasks, request.done_order)
        assistant_message ==
            ChatMessage("assistant", request.content, Some(results))
        o == ChatStorage_add_message(store, request.session_id, assistant_message, now)
    IN  [sessions |-> o.sessions,
         calls |-> <<Call("add_message", request.session_id, None,
                          Some(assistant_message), o.ret, None)>>,
         status |-> 200,
         body |-> ChatResponse(results)]

\* add_message, lines 129-138, from the await on: the store it leaves, the
\* calls it makes and the response
add_message_resumed(store, request, now) ==
    LET results == gather(request.tasks, request.done_order)
        assistant_message ==
            ChatMessage("assistant", request.prompt, Some(results))
        o == ChatStorage_add_message(store, request.session_id, assistant_message, now)
    IN  [sessions |-> o.sessions,
         calls |-> <<Call("add_message", request.session_id, None,
                          Some(assistant_message), o.ret, None)>>,
         status |-> 200,
         body |-> ChatResponse(results)]

\* a bug to compare with: the turn started without the check that the
\* session exists
add_message_unchecked(h, session_id, content, models) ==
    /\ handlers[h] = Idle
    /\ models # <<>>
    /\ TotalMessages(sessions) < MaxMessages
    /\ \E t1 \in Now(clock) : \E t2 \in Now(t1) :
        LET found == ChatStorage_get_session(sessions, session_id)
            get == Call("get_session", session_id, None, None, found.ret, None)
            user_message == ChatMessage("user", content, None)
            added == ChatStorage_add_message(sessions, session_id, user_message, t2)
            add == Call("add_message", session_id, None, Some(user_message), added.ret, None)
            prompt == IF found.ret = None THEN content
                      ELSE enhanced_prompt(Deref(added.sessions, found.ret[1]).messages,
                                           content)
            g == gather_start(models, prompt)
            request == Request("add_message", session_id, content, models,
                               prompt, g.tasks, g.done_order)
        IN  /\ sessions' = added.sessions
            /\ clock' = t2
            /\ handlers' = [handlers EXCEPT ![h] = request]
            /\ last' = Step("add_message", h, None, NoBody, <<get, add>>, request)
    /\ UNCHANGED issued

\* POST /sessions/{session_id}/messages, lines 93-127, to the await; a gather
\* of no tasks is done at once, and the handler runs on to its end
add_message(h, session_id, content, models) ==
    /\ handlers[h] = Idle
    /\ LET found == ChatStorage_get_session(sessions, session_id)
           get == Call("get_session", session_id, None, None, found.ret, None)
       IN  IF found.ret = None
           THEN /\ last' = Step("add_message", h, Some(404),
                                 HTTPException("Session not found"), <<get>>, Idle)
                /\ UNCHANGED <<sessions, issued, clock, handlers>>
           ELSE \E t1 \in Now(clock) : \E t2 \in Now(t1) :
                LET session == found.ret[1]
                    \* t1 is the reading for the timestamp of the message
                    user_message == ChatMessage("user", content, None)
                    added == ChatStorage_add_message(sessions, session_id, user_message, t2)
                    add == Call("add_message", session_id, None, Some(user_message), added.ret, None)
                    prompt == enhanced_prompt(Deref(added.sessions, session).messages,
                                              content)
                    g == gather_start(models, prompt)
                    request == Request("add_message", session_id, content, models,
                                       prompt, g.tasks, g.done_order)
                IN  /\ TotalMessages(sessions) < MaxMessages
                    /\ issued' = issued
                    /\ IF models # <<>>
                       THEN /\ sessions' = added.sessions
                            /\ clock' = t2
                            /\ handlers' = [handlers EXCEPT ![h] = request]
                            /\ last' = Step("add_message", h, None, NoBody,
                                            <<get, add>>, request)
                       ELSE \E t3 \in Now(t2) : \E t4 \in Now(t3) :
                            LET r == add_message_resumed(added.sessions, request, t4)
                            IN  /\ sessions' = r.sessions
                                /\ clock' = t4
                                /\ handlers' = handlers
                                /\ last' = Step("add_message", h, Some(r.status), r.body,
                                                <<get, add>> \o r.calls, request)

\* POST /sessions/{session_id}/messages, lines 127-138, from the await on
add_message_return(h) ==
    /\ handlers[h] # Idle
    /\ handlers[h].route = "add_message"
    /\ gather_ready(handlers[h])
    /\ handlers' = [handlers EXCEPT ![h] = Idle]
    /\ \E t1 \in Now(clock) : \E t2 \in Now(t1) :
        \* t1 is the reading for the timestamp of the message
        LET r == add_message_resumed(sessions, handlers[h], t2)
        IN  /\ sessions' = r.sessions
            /\ clock' = t2
            /\ last' = Step("add_message", h, Some(r.status), r.body, r.calls, handlers[h])
    /\ UNCHANGED issued

\* the session store behind its routes, and turns without providers
NextStore ==
    \/ \E title \in Titles, session_id \in Uuids \ issued :
          create_session(title, session_id)
    \/ list_sessions
    \/ \E session_id \in Uuids : get_session(session_id)
    \/ \E session_id \in Uuids : delete_session(session_id)
    \/ \E session_id \in Uuids, title \in Titles : update_session_title(session_id, title)
    \/ \E h \in ChatHandlers, session_id \in Uuids, content \in Contents :
          add_message(h, session_id, content, <<>>)

SpecStore == Init /\ [][NextStore]_vars

\* concurrent session-scoped turns, with sessions created and deleted
Next ==
    \/ \E title \in TurnTitles, session_id \in TurnUuids \ issued :
          create_session(title, session_id)
    \/ \E session_id \in TurnUuids : delete_session(session_id)
    \/ \E h \in Handlers :
        \/ \E session_id \in TurnUuids, content \in Contents, models \in TurnModels :
              add_message(h, session_id, content, models)
        \/ \E i \in 1..MaxModels, x \in TurnExchanges : task_resume(h, i, x)
        \/ add_message_return(h)

Spec == Init /\ [][Next]_vars

\* both fan-out routes, with sessions created and deleted
NextLive ==
    \/ \E title \in TurnTitles, session_id \in TurnUuids \ issued :
          create_session(title, session_id)
    \/ \E session_id \in TurnUuids : delete_session(session_id)
    \/ \E h \in Handlers :
        \/ \E prompt \in ChatPrompts, models \in LiveModels : chat(h, prompt, models)
        \/ \E session_id \in TurnUuids, content \in LiveContents, models \in LiveModels :
              add_message(h, session_id, content, models)
        \/ \E i \in 1..MaxModels, x \in TurnExchanges : task_resume(h, i, x)
        \/ chat_return(h)
        \/ add_message_return(h)

(* The scheduling the code rests on: every client.post ends, with a        *)
(* response or an exception, at the latest by its timeout of 60 s          *)
(* (providers.py:77), and the event loop resumes a coroutine whose await   *)
(* is done. Nothing obliges a client to send a request. Each of these     *)
(* steps changes `handlers`.                                               *)
Fairness ==
    \A h \in Handlers :
        /\ \A i \in 1..MaxModels :
              WF_handlers(\E x \in TurnExchanges : task_resume(h, i, x))
        /\ WF_handlers(chat_return(h))
        /\ WF_handlers(add_message_return(h))

SpecLive == Init /\ [][NextLive]_vars /\ Fairness

----------------------------------------------------------------------------
(* Properties *)

\* the latest step sent the response of a fan-out route
Responded(route) == last.route = route /\ last.status = Some(200)

Registered(key) == key \in DOMAIN PROVIDER_MAP

\* the list of results the latest step responded with
Responses == last.body.responses[1]

\* C1: a dispatch of N >= 1 provider ids returns exactly N results, and the
\* result at position i is the one of the call made for the i-th id, with
\* that id in its `model`, in whatever order the calls ended.
DispatchKeepsInputOrder ==
    Responded("chat") =>
        LET models == last.request.models
            tasks == last.request.tasks
        IN  /\ Len(models) >= 1
            /\ Len(Responses) = Len(models)
            /\ \A i \in 1..Len(models) :
                /\ tasks[i].provider_key = models[i]
                /\ Responses[i] = tasks[i].result[1]
                /\ Responses[i].model = models[i]

\* C1 happens: a dispatch with a duplicated id returned after its second call
\* ended before its first, the two with different results
DispatchOutOfOrderReturned ==
    /\ Responded("chat")
    /\ Len(last.request.models) = 3
    /\ last.request.models[1] = last.request.models[2]
    /\ last.request.done_order = <<3, 2, 1>>
    /\ Responses[1] # Responses[2]

\* the call of task i failed in transport: its client.post raised
TransportError(task) ==
    task.exchange # None /\ task.exchange[1].kind = "raise"

\* the call of task i succeeded with a populated output
Succeeded(task) ==
    /\ task.exchange # None
    /\ task.exchange[1].kind = "response"
    /\ task.exchange[1].status_code < 400
    /\ task.exchange[1].body = "full"

\* C2: when one call of a dispatch fails in transport and the others
\* succeed, the others carry their output and no error, the failed one a
\* non-empty error and an empty output, and the dispatch returns N results.
OneFailureIsIsolated ==
    Responded("chat") =>
        LET tasks == last.request.tasks
            N == Len(tasks)
        IN  \A f \in 1..N :
                (/\ N >= 2
                 /\ TransportError(tasks[f])
                 /\ \A i \in 1..N : i # f => Succeeded(tasks[i]))
                =>
                /\ Len(Responses) = N
                /\ \A i \in 1..N : i # f =>
                      Responses[i].output # "" /\ Responses[i].error = None
                /\ Responses[f].output = ""
                /\ Responses[f].error # None
                /\ Responses[f].error[1] # ""

\* C3: an id that is not in the registry gets, at its position, the result
\* {model: the id, error: "Unknown provider", latency_ms: 0, output: ""}; no
\* adapter is called for it, and the request responds as usual.
UnknownProviderIsAResult ==
    /\ \A h \in Handlers :
          handlers[h] # Idle =>
              \A i \in 1..Len(handlers[h].tasks) :
                  LET task == handlers[h].tasks[i]
                  IN  ~Registered(task.provider_key) =>
                          /\ task.state = "done"
                          /\ task.sent = None
                          /\ task.exchange = None
    /\ Responded("chat") =>
          \A i \in 1..Len(last.request.models) :
              ~Registered(last.request.models[i]) =>
                  /\ last.request.tasks[i].sent = None
                  /\ last.request.tasks[i].exchange = None
                  /\ Responses[i].model = last.request.models[i]
                  /\ Responses[i].error = Some("Unknown provider")
                  /\ Responses[i].latency_ms = 0
                  /\ Responses[i].output = ""

\* C3 happens: dispatch(["openai", "unknown", "openai"]) returned, the two
\* openai calls with results of their own
UnknownBetweenTwoKnownReturned ==
    /\ Responded("chat")
    /\ last.request.models = <<"openai", "unknown", "openai">>
    /\ Responses[2].error = Some("Unknown provider")
    /\ Responses[1].error = None
    /\ Responses[1].output = "4"
    /\ Responses[3].error # None

\* C7: a fan-out route responds (and a turn appends its assistant message)
\* only when every call of its gather has ended; never with a call in
\* flight, never on the first one ended.
RespondsAfterAllCalls ==
    /\ (Responded("chat") \/ Responded("add_message")) =>
          /\ AllDone(last.request.tasks)
          /\ Len(Responses) = Len(last.request.models)
    /\ \A i \in 1..Len(last.calls) :
          (last.calls[i].op = "add_message" /\ last.calls[i].message[1].role = "assistant") =>
              /\ AllDone(last.request.tasks)
              /\ last.calls[i].message[1].model_responses =
                    Some([k \in 1..Len(last.request.tasks) |->
                            last.request.tasks[k].result[1]])

\* C7 happens: a turn of two calls responded, its second call having ended
\* first
TurnOfTwoCallsResponded ==
    /\ Responded("add_message")
    /\ Len(last.request.tasks) = 2
    /\ last.request.done_order = <<2, 1>>
    /\ Len(last.calls) = 1
    /\ last.calls[1].ret # None

\* C4: a step that tried to read or to append to a session that was not in
\* the store ends its request with the not-found response, never with a
\* success.
SessionNotFoundIsSurfaced ==
    \A i \in 1..Len(last.calls) :
        (/\ last.calls[i].op \in {"get_session", "add_message"}
         /\ last.calls[i].ret = None)
        => last.status = Some(404)

\* the session as get_session found it when the latest step, the start of a
\* turn, began: before the turn's user message was appended
TurnStarted ==
    /\ last.route = "add_message"
    /\ last.calls # <<>>
    /\ last.calls[1].op = "get_session"
    /\ last.calls[1].ret # None

PriorMessages == last.calls[1].ret[1].messages

\* C5: a turn on a session without messages sends the new content as it is,
\* with no "Previous conversation:" header.
FirstTurnPromptIsTheContent ==
    (TurnStarted /\ PriorMessages = <<>>) =>
        /\ last.request.prompt = last.request.content
        /\ \A i \in 1..Len(last.request.tasks) :
              last.request.tasks[i].prompt = last.request.content

\* C6: the prompt of a turn is built from the trailing 5 messages the
\* session had before the new user message was appended: a "User: " line
\* for each user message among them, in order, none for an assistant
\* message and none for the new content.
ContextIsThePriorWindow ==
    TurnStarted =>
        LET lines == context_messages(LastN(PriorMessages, ContextWindow))
        IN  last.request.prompt =
                IF lines = <<>>
                THEN last.request.content
                ELSE "Previous conversation:\n" \o Join("\n\n", lines)
                     \o "\n\nCurrent question: " \o last.request.content

\* the messages the calls of a step appended to the session id, in order
RECURSIVE Appended(_, _)
Appended(calls, id) ==
    IF calls = <<>> THEN <<>>
    ELSE (IF /\ Head(calls).op = "add_message"
             /\ Head(calls).session_id = id
             /\ Head(calls).ret # None
          THEN Head(calls).message
          ELSE <<>>) \o Appended(Tail(calls), id)

\* C8: each append to an existing session puts the message at the end of
\* the list, which otherwise stays as it was, sets updated_at to a value >=
\* the one before and leaves id, title and created_at alone; while a session
\* exists its list changes in no other way, however turns overlap.
AppendOnlyGrowsTheList ==
    [][\A id \in Keys(sessions) \cap Keys(sessions') :
          LET before == DictGet(sessions, id)[1]
              after == DictGet(sessions', id)[1]
              new == Appended(last'.calls, id)
          IN  /\ after.messages = before.messages \o new
              /\ Len(after.messages) = Len(before.messages) + Len(new)
              /\ after.updated_at >= before.updated_at
              /\ new # <<>> =>
                    /\ after.id = before.id
                    /\ after.title = before.title
                    /\ after.created_at = before.created_at
                    /\ \A i \in 1..Len(last'.calls) :
                          (last'.calls[i].op = "add_message"
                           /\ last'.calls[i].session_id = id)
                          => last'.calls[i].ret # None]_vars

\* C8 happens: two overlapping turns have appended their four messages to
\* one session, the two user messages first
TwoTurnsAppended ==
    /\ Responded("add_message")
    /\ Appended(last.calls, "s1") # <<>>
    /\ DictGet(sessions, "s1") # None
    /\ Len(DictGet(sessions, "s1")[1].messages) = 4
    /\ DictGet(sessions, "s1")[1].messages[1].role = "user"
    /\ DictGet(sessions, "s1")[1].messages[2].role = "user"
    /\ DictGet(sessions, "s1")[1].messages[1].content
          # DictGet(sessions, "s1")[1].messages[2].content
    /\ DictGet(sessions, "s1")[1].updated_at > DictGet(sessions, "s1")[1].created_at

\* the sessions other than id are the same in the two dicts
OthersUnchanged(before, after, id) ==
    \A k \in (Keys(before) \cup Keys(after)) \ {id} :
        DictGet(after, k) = DictGet(before, k)

\* C9: deleting an id that is in the store returns true and removes that
\* session and no other, and a get_session of the id then finds nothing;
\* deleting an id that is not in the store returns false and changes
\* nothing.
DeleteRemovesThatSession ==
    [][last'.route = "delete_session" =>
          LET id == last'.calls[1].session_id
          IN  IF id \in Keys(sessions)
              THEN /\ last'.calls[1].success = Some(TRUE)
                   /\ last'.status = Some(200)
                   /\ Keys(sessions') = Keys(sessions) \ {id}
                   /\ OthersUnchanged(sessions, sessions', id)
                   /\ ChatStorage_get_session(sessions', id).ret = None
              ELSE /\ last'.calls[1].success = Some(FALSE)
                   /\ last'.status = Some(404)
                   /\ sessions' = sessions]_vars

\* C9 happens: one of two sessions, each with messages or a changed title,
\* was deleted
OneOfTwoDeleted ==
    /\ last.route = "delete_session"
    /\ last.status = Some(200)
    /\ Len(sessions) = 1
    /\ sessions[1].messages # <<>>

\* C10: create_session adds one session under an id no session has, with the
\* title given, no messages and created_at = updated_at, changes no other
\* session, and a get_session of the id returns it.
CreateAddsAFreshSession ==
    [][last'.route = "create_session" =>
          LET session == last'.body.session[1]
          IN  /\ session.id \notin Keys(sessions)
              /\ Some(session.title) = last'.calls[1].title
              /\ session.messages = <<>>
              /\ session.created_at = session.updated_at
              /\ Keys(sessions') = Keys(sessions) \cup {session.id}
              /\ Len(sessions') = Len(sessions) + 1
              /\ OthersUnchanged(sessions, sessions', session.id)
              /\ ChatStorage_get_session(sessions', session.id).ret = Some(session)]_vars

\* C10 happens: a second session was created beside one that has messages
SecondSessionCreated ==
    /\ last.route = "create_session"
    /\ Len(sessions) = 2
    /\ sessions[1].messages # <<>>
    /\ Some(sessions[2]) = last.body.session
    /\ sessions[2].created_at > sessions[1].created_at

\* the messages of a role in a list
RoleCount(messages, role) ==
    Len(SelectSeq(messages, LAMBDA m : m.role = role))

\* the handlers suspended in a turn on the session id
TurnsInFlight(hs, id) ==
    {h \in Handlers : hs[h] # Idle /\ hs[h].session_id = id}

\* C11: the store's operations are atomic for the handlers, which are
\* suspended only in the gather of a fan-out: after every step, a session a
\* step appended to carries the step's reading in updated_at, a session a
\* step deleted is gone, and no append is lost: each stored session holds
\* one user message for every turn started on it and one assistant message
\* for every turn that has returned, however the turns overlap.
StoreOperationsAreAtomic ==
    [][/\ \A h \in Handlers :
              handlers'[h] # Idle =>
                  /\ handlers'[h].tasks # <<>>
                  /\ handlers'[h] # handlers[h] =>
                        \/ handlers[h] = Idle /\ last'.handler = h
                        \/ last'.route = "call_single_model" /\ last'.calls = <<>>
       /\ \A id \in Keys(sessions') :
              LET after == DictGet(sessions', id)[1]
              IN  /\ Appended(last'.calls, id) # <<>> => after.updated_at = clock'
                  /\ RoleCount(after.messages, "user") =
                        RoleCount(after.messages, "assistant")
                        + Cardinality(TurnsInFlight(handlers', id))
       /\ \A i \in 1..Len(last'.calls) :
              (last'.calls[i].op = "delete_session" /\ last'.calls[i].success = Some(TRUE)) =>
                  last'.calls[i].session_id \notin Keys(sessions')]_vars

\* C11 happens: two handlers are suspended in turns on one session, which
\* holds the user message of each, the second appended at a later reading
TwoTurnsInFlight ==
    /\ \A h \in Handlers : handlers[h] # Idle /\ handlers[h].session_id = "s1"
    /\ handlers["h1"].content # handlers["h2"].content
    /\ DictGet(sessions, "s1") # None
    /\ Len(DictGet(sessions, "s1")[1].messages) = 2
    /\ DictGet(sessions, "s1")[1].updated_at > DictGet(sessions, "s1")[1].created_at

\* the exchange of a provider call has ended
Exchanged(task) == task.exchange # None

\* what provider.generate ended with in the call of a task
Generated(task) == generate(PROVIDER_MAP[task.provider_key], task.exchange[1])

\* the provider call failed: in transport (the timeout included), with a
\* status that is not 2xx, or with a body that is not JSON
FailedExchange(x) ==
    \/ x.kind = "raise"
    \/ x.kind = "response" /\ (x.status_code \notin 200..299 \/ x.body = "not_json")

\* C12: generate never ends with an exception, and for every kind of
\* failure it returns a result with error set and an empty output.
GenerateNeverRaises ==
    \A h \in Handlers :
        handlers[h] # Idle =>
            \A i \in 1..Len(handlers[h].tasks) :
                LET task == handlers[h].tasks[i]
                IN  Exchanged(task) =>
                        /\ ~Generated(task).raised
                        /\ FailedExchange(task.exchange[1]) =>
                              /\ Generated(task).value.error # None
                              /\ Generated(task).value.output = ""

\* a 2xx response of JSON in an unexpected shape: the fields read are
\* missing, or the choices/candidates list is empty
UnexpectedShape(x) ==
    /\ x.kind = "response"
    /\ x.status_code \in 200..299
    /\ x.body \in {"no_fields", "empty_list"}

\* C13: the result of a call whose response has an unexpected shape is a
\* success: no error, an empty output, and finish_reason and usage absent
\* where the response does not carry them.
UnexpectedShapeIsEmptySuccess ==
    \A h \in Handlers :
        handlers[h] # Idle =>
            \A i \in 1..Len(handlers[h].tasks) :
                LET task == handlers[h].tasks[i]
                IN  (Exchanged(task) /\ UnexpectedShape(task.exchange[1])) =>
                        /\ task.state = "done"
                        /\ task.result[1].error = None
                        /\ task.result[1].output = ""
                        /\ task.exchange[1].body = "no_fields" =>
                              /\ task.result[1].finish_reason = None
                              /\ task.result[1].usage = None

\* C14: a turn that starts on a session id the store does not hold ends at
\* once with the not-found response: it starts no provider call, appends no
\* message, makes no storage call but the lookup and leaves the store as it
\* was.
TurnOnAbsentSessionIsRefused ==
    [][(/\ last'.route = "add_message"
        /\ last'.calls # <<>>
        /\ last'.calls[1].op = "get_session"
        /\ last'.calls[1].session_id \notin Keys(sessions))
       =>
       /\ last'.status = Some(404)
       /\ last'.body = HTTPException("Session not found")
       /\ Len(last'.calls) = 1
       /\ last'.request = Idle
       /\ handlers' = handlers
       /\ sessions' = sessions
       /\ clock' = clock]_vars

\* C14 happens: a turn was refused on a session that was deleted under
\* another turn, which is still waiting for its provider calls
TurnOnDeletedSessionRefused ==
    /\ last.route = "add_message"
    /\ last.status = Some(404)
    /\ last.calls[1].session_id \in issued
    /\ sessions = <<>>
    /\ \E h \in Handlers :
          /\ handlers[h] # Idle
          /\ handlers[h].session_id = last.calls[1].session_id
          /\ \E i \in 1..Len(handlers[h].tasks) : handlers[h].tasks[i].state = "awaiting"

\* the latest step called add_message with an assistant message as call i
AssistantAppend(i) ==
    /\ last.calls[i].op = "add_message"
    /\ last.calls[i].message[1].role = "assistant"

\* C15: the calls of a turn all receive the one enhanced prompt of the
\* turn, and the assistant message the turn appends has that prompt as its
\* content and, as model_responses, the list the turn responds with.
TurnStoresWhatItSent ==
    /\ \A h \in Handlers :
          handlers[h] # Idle =>
              \A i \in 1..Len(handlers[h].tasks) :
                  LET task == handlers[h].tasks[i]
                  IN  /\ task.prompt = handlers[h].prompt
                      /\ task.sent # None => task.sent = Some(handlers[h].prompt)
    /\ \A i \in 1..Len(last.calls) :
          AssistantAppend(i) =>
              LET message == last.calls[i].message[1]
                  tasks == last.request.tasks
              IN  /\ \A k \in 1..Len(tasks) :
                        /\ tasks[k].prompt = last.request.prompt
                        /\ tasks[k].sent # None => tasks[k].sent = Some(message.content)
                  /\ message.content = last.request.prompt
                  /\ last.status = Some(200)
                  /\ message.model_responses = last.body.responses
                  /\ Len(Responses) = Len(last.request.models)
                  /\ last.calls[i].ret # None =>
                        LET stored == last.calls[i].ret[1].messages
                        IN  /\ stored[Len(stored)] = message
                            /\ DictGet(sessions, last.calls[i].session_id)
                                  = last.calls[i].ret

\* C15 happens: a turn of two calls, which ended with different results,
\* has appended its assistant message, whose content is not the content of
\* the request
TurnOfTwoResultsStored ==
    /\ Responded("add_message")
    /\ Len(last.calls) = 1
    /\ AssistantAppend(1)
    /\ last.calls[1].ret # None
    /\ Len(Responses) = 2
    /\ Responses[1] # Responses[2]
    /\ last.calls[1].message[1].content # last.request.content

\* the object get_session returned to the handler h when its turn started,
\* which h holds in `session` while it is suspended
HeldSession(h) == [id |-> handlers[h].session_id]

\* C16: what get_session returned is a snapshot: while a handler holds a
\* ChatSession it was given, a step of another handler changes nothing of
\* what is read through it.
ReturnedSessionIsASnapshot ==
    [][\A h \in Handlers :
          (/\ handlers[h] # Idle
           /\ handlers'[h] # Idle
           /\ last'.handler # h
           /\ HeldSession(h).id \in Keys(sessions) \cap Keys(sessions'))
          =>
          LET before == Deref(sessions, HeldSession(h))
              after == Deref(sessions', HeldSession(h))
          IN  /\ after.messages = before.messages
              /\ after.title = before.title
              /\ after.updated_at = before.updated_at]_vars

\* C17: every dispatch is made with at least one provider id and a prompt
\* that is not empty, and a request with an empty list of provider ids
\* neither reaches the gather nor appends a message to a session.
DispatchHasProvidersAndPrompt ==
    /\ \A h \in Handlers :
          handlers[h] # Idle =>
              Len(handlers[h].models) >= 1 /\ handlers[h].prompt # ""
    /\ last.request # Idle =>
          Len(last.request.models) >= 1 /\ last.request.prompt # ""
    /\ \A i \in 1..Len(last.calls) :
          last.calls[i].op = "add_message" => last.request.models # <<>>

\* C18: the calls of a dispatch are all started before any of them ends:
\* while the request waits, no call is left unstarted and the call for each
\* registered id has posted its prompt, and whatever the other calls do, a
\* call in flight can end.
AllCallsStartTogether ==
    \A h \in Handlers :
        handlers[h] # Idle =>
            \A i \in 1..Len(handlers[h].tasks) :
                LET task == handlers[h].tasks[i]
                IN  /\ task.state \in {"awaiting", "done"}
                    /\ Registered(task.provider_key) => task.sent = Some(task.prompt)
                    /\ task.state = "awaiting" =>
                          ENABLED (\E x \in Exchanges : task_resume(h, i, x))

\* C18 happens: the three calls of a dispatch are in flight at once
ThreeCallsInFlight ==
    \E h \in Handlers :
        /\ handlers[h] # Idle
        /\ Len(handlers[h].tasks) = 3
        /\ handlers[h].done_order = <<>>
        /\ \A i \in 1..3 : handlers[h].tasks[i].state = "awaiting"

\* the handler h has just sent the response of its request: the list of
\* results, one for each provider id, and for a turn, its assistant message
\* appended unless the session is no longer in the store
Returned200(h) ==
    /\ handlers[h] = Idle
    /\ last.handler = h
    /\ last.status = Some(200)
    /\ Len(Responses) = Len(last.request.models)
    /\ last.route = "add_message" =>
          LET append == last.calls[Len(last.calls)]
          IN  /\ append.op = "add_message"
              /\ append.message[1].role = "assistant"
              /\ append.ret = None => append.session_id \notin Keys(sessions)

\* C19: as every provider call ends, every dispatch that has started
\* returns its list of results, and every turn that has started responds,
\* having appended its assistant message if its session is still stored;
\* nothing cancels a started request.
EveryRequestReturns ==
    \A h \in Handlers : (handlers[h] # Idle) ~> Returned200(h)

\* C19 happens: a turn has responded and appended its assistant message
\* after one of its calls failed, a dispatch of the other handler waiting
TurnReturnedBesideDispatch ==
    /\ Returned200("h2")
    /\ last.route = "add_message"
    /\ last.calls[1].ret # None
    /\ \E i \in 1..Len(Responses) : Responses[i].error = Some("")
    /\ handlers["h1"] # Idle
    /\ handlers["h1"].route = "chat"

\* C20: update_session_title on an id the store holds sets the title and
\* sets updated_at to a value >= the one before, leaves id, created_at and
\* messages of the session and every other session as they were, and
\* returns the session; on an id the store does not hold it returns None
\* and leaves the store as it was.
UpdateTitleChangesTitleOnly ==
    [][last'.route = "update_session_title" =>
          LET call == last'.calls[1]
              id == call.session_id
          IN  IF id \in Keys(sessions)
              THEN LET before == DictGet(sessions, id)[1]
                       after == DictGet(sessions', id)[1]
                   IN  /\ id \in Keys(sessions')
                       /\ Some(after.title) = call.title
                       /\ after.updated_at >= before.updated_at
                       /\ after.id = before.id
                       /\ after.created_at = before.created_at
                       /\ after.messages = before.messages
                       /\ call.ret = Some(after)
                       /\ Len(sessions') = Len(sessions)
                       /\ IndexOf(sessions', id) = IndexOf(sessions, id)
                       /\ OthersUnchanged(sessions, sessions', id)
              ELSE /\ call.ret = None
                   /\ sessions' = sessions]_vars

\* C20 happens: one of two sessions, which has messages, was given another
\* title than the other session has, at a later reading than it was made
TitleOfOneOfTwoUpdated ==
    /\ last.route = "update_session_title"
    /\ last.calls[1].ret # None
    /\ Len(sessions) = 2
    /\ last.calls[1].ret[1].messages # <<>>
    /\ last.calls[1].ret[1].updated_at > last.calls[1].ret[1].created_at
    /\ sessions[1].title # sessions[2].title

\* the ids that were given to a session which the store no longer holds
Deleted(store) == issued \ Keys(store)

\* C21: a deleted session stays deleted: no step, and so no late append of
\* a turn that was waiting when its session was deleted, puts the id back
\* into the store; such an append returns None and changes nothing, and a
\* get_session of the id finds nothing.
DeletionIsFinal ==
    [][\A id \in Deleted(sessions) :
          /\ id \notin Keys(sessions')
          /\ ChatStorage_get_session(sessions', id).ret = None
          /\ \A i \in 1..Len(last'.calls) :
                (last'.calls[i].op = "add_message" /\ last'.calls[i].session_id = id) =>
                    /\ last'.calls[i].ret = None
                    /\ sessions' = sessions]_vars

\* C21 happens: a turn has responded whose session was deleted while it
\* waited; its append found no session and the store is empty
TurnReturnedAfterDelete ==
    /\ Responded("add_message")
    /\ Len(last.calls) = 1
    /\ AssistantAppend(1)
    /\ last.calls[1].ret = None
    /\ last.calls[1].session_id \in Deleted(sessions)
    /\ ChatStorage_list_sessions(sessions).ret = <<>>

\* the roles of the messages of a list, in order
Roles(messages) == [i \in 1..Len(messages) |-> messages[i].role]

\* C22: in every stored session, however turns on it overlap, each
\* assistant message comes after the user message of its turn: every prefix
\* of the list has at most as many assistant messages as user messages, and
\* a turn that appends its assistant message finds its own user message
\* before it.
AssistantFollowsItsUser ==
    /\ \A k \in 1..Len(sessions) :
          \A n \in 0..Len(sessions[k].messages) :
              LET prefix == SubSeq(sessions[k].messages, 1, n)
              IN  RoleCount(prefix, "assistant") <= RoleCount(prefix, "user")
    /\ \A i \in 1..Len(last.calls) :
          (AssistantAppend(i) /\ last.calls[i].ret # None) =>
              LET stored == last.calls[i].ret[1].messages
              IN  \E u \in 1..(Len(stored) - 1) :
                      /\ stored[u].role = "user"
                      /\ stored[u].content = last.request.content

\* C22 happens: two overlapping turns left one session with two user
\* messages followed by two assistant messages
TwoUsersThenTwoAssistants ==
    /\ Len(sessions) = 1
    /\ Roles(sessions[1].messages) = <<"user", "user", "assistant", "assistant">>
    /\ sessions[1].messages[3].content # sessions[1].messages[4].content

====
